---- MODULE Spec2Model ----
(***************************************************************************)
(* A model of pytsk's setup.py: Source Discovery (ProjectBuilder.build),   *)
(* the build_ext command (BuildExtCommand: Toolchain Prober and Binding    *)
(* Trigger) and the release update (UpdateCommand: the Patch Engine, the   *)
(* line swap and the orchestrating run).                                   *)
(*                                                                         *)
(* Text is modelled as TLA+ strings, character by character: paths are     *)
(* compared by code point as sorted() does, the output of configure is     *)
(* split at "\n" and right-stripped as the code does, and re.sub is a      *)
(* leftmost, greedy, backtracking matcher over the patterns of the rule    *)
(* table.                                                                  *)
(***************************************************************************)
EXTENDS Integers, Sequences, FiniteSets, TLC

VARIABLES
  argv,            \* the command given on the command line (sys.argv)
  pc,              \* position of the running program
  tree,            \* the files of the vendor checkout (paths)
  _source_files,   \* ProjectBuilder._source_files
  manifests,       \* the source lists handed to Extension(), one per build()
  compiler_type,   \* compiler.compiler_type / get_default_compiler()
  pytsk3,          \* the binding artifact pytsk3.c on disk
  pytsk3_at_start, \* pytsk3.c as it was when the command started
  procs,           \* external processes started, in order
  printed,         \* lines printed by configure_source_tree
  define,          \* BuildExtCommand.define (the macro list), <<>> until set
  gen_calls,       \* invocations of generate_bindings.generate_bindings
  build_ext_runs,  \* number of times build_ext.run was started
  text,            \* content of the files of the rule table and version.txt
  text_at_start,   \* content of those files when the command started
  upstream,        \* content of the vendor files at the pinned tag
  steps,           \* steps of UpdateCommand.run completed, in order
  data,            \* patch_sleuthkit: the text buffer of the current file
  file_index,      \* patch_sleuthkit: index of the current file in files
  output,          \* the output captured from the configuration script
  error,           \* the exception that ended the command, "" if none
  timezone,        \* time.timezone: seconds west of UTC
  sdist_runs,      \* number of times sdist.run was started
  libtsk_readable  \* the mode of sleuthkit/tsk lets the user read it

vars == <<argv, pc, tree, _source_files, manifests, compiler_type, pytsk3,
          pytsk3_at_start, procs, printed, define, gen_calls, build_ext_runs,
          text, text_at_start, upstream, steps, data, file_index, output,
          error, timezone, sdist_runs, libtsk_readable>>

----------------------------------------------------------------------------
(* Bounds of the model.                                                    *)

\* largest number of files placed in the vendor checkout
MaxTree == 2
\* largest number of build() calls on one ProjectBuilder
MaxBuilds == 2
\* largest number of lines in the output of the configuration script
MaxOutLines == 3
\* largest number of rule table files whose text is not the pristine one
MaxVariants == 1
\* largest number of lines of raw.c before it is patched
MaxRawLines == 383
\* largest number of runs of patch_sleuthkit over the same files
MaxPatchRuns == 2
\* largest local offset from UTC, in minutes, either way
MaxOffsetMinutes == 840

----------------------------------------------------------------------------
(* Strings.                                                                *)

Char(s, i) == SubSeq(s, i, i)

Min(S) == CHOOSE x \in S : \A y \in S : x <= y
Max(S) == CHOOSE x \in S : \A y \in S : x >= y

\* The characters used in paths, in code point order; a character's position
\* orders it as its code point does.
CodePoints == "./0123456789ABCDEFGHIJKLMNOPQRSTUVWXYZ_abcdefghijklmnopqrstuvwxyz"

ord(c) == CHOOSE i \in 1..Len(CodePoints) : Char(CodePoints, i) = c

StartsWith(s, p) == Len(p) <= Len(s) /\ SubSeq(s, 1, Len(p)) = p

EndsWith(s, p) ==
  Len(p) <= Len(s) /\ SubSeq(s, Len(s) - Len(p) + 1, Len(s)) = p

\* str.__lt__: comparison by code point at the first difference, a proper
\* prefix being smaller.
StrLess(a, b) ==
  LET n == IF Len(a) < Len(b) THEN Len(a) ELSE Len(b)
      D == {i \in 1..n : Char(a, i) # Char(b, i)}
  IN  IF D = {} THEN Len(a) < Len(b)
      ELSE ord(Char(a, Min(D))) < ord(Char(b, Min(D)))

StrLessEq(a, b) == a = b \/ StrLess(a, b)

RECURSIVE Insert(_, _)
Insert(x, s) ==
  IF s = <<>> THEN <<x>>
  ELSE IF StrLess(x, Head(s)) THEN <<x>> \o s
  ELSE <<Head(s)>> \o Insert(x, Tail(s))

\* the list left in the order it was built in
unsorted(s) == s

\* sorted(list): ascending, every element kept (duplicates included).
RECURSIVE sorted(_)
sorted(s) == IF s = <<>> THEN <<>> ELSE Insert(s[Len(s)], sorted(SubSeq(s, 1, Len(s) - 1)))

Range(s) == {s[i] : i \in 1..Len(s)}

\* every enumeration of a finite set as a sequence
Perms(S) ==
  {f \in [1..Cardinality(S) -> S] : \A x \in S : \E i \in 1..Cardinality(S) : f[i] = x}

----------------------------------------------------------------------------
(* Source Discovery: ProjectBuilder.                                       *)

_libtsk_path == "sleuthkit/tsk"

_sub_library_names == <<"auto", "base", "docs", "fs", "hashdb", "img", "vs">>

\* ProjectBuilder.__init__: the sources to build.
SeedSourceFiles == <<"class.c", "error.c", "tsk3.c", "pytsk3.c", "talloc/talloc.c">>

extensions == <<"*.c", "*.cpp">>

\* os.path.join of a directory and a name
join(a, b) == a \o "/" \o b

Slashes(p) == {i \in 1..Len(p) : Char(p, i) = "/"}

dirname(p) == IF Slashes(p) = {} THEN "" ELSE SubSeq(p, 1, Max(Slashes(p)) - 1)

basename(p) == IF Slashes(p) = {} THEN p ELSE SubSeq(p, Max(Slashes(p)) + 1, Len(p))

\* fnmatch of a name against a pattern "*<suffix>": the suffix matches and,
\* as glob does, a name starting with a dot is not matched by "*".
fnmatch(name, pattern) ==
  /\ EndsWith(name, SubSeq(pattern, 2, Len(pattern)))
  /\ ~ StartsWith(name, ".")

\* the set of paths glob.glob(pattern) returns for the files on disk
GlobSet(fs, pattern) ==
  {p \in fs : dirname(p) = dirname(pattern)
                 /\ fnmatch(basename(p), basename(pattern))}

\* the glob patterns of build(), in loop order
GlobPatterns ==
  [k \in 1..(Len(_sub_library_names) * Len(extensions)) |->
     join(join(_libtsk_path, _sub_library_names[((k - 1) \div Len(extensions)) + 1]),
          extensions[((k - 1) % Len(extensions)) + 1])]

\* The lists self._source_files can be after the loop of build(): each glob
\* result is appended in some enumeration order of the directory.
RECURSIVE Extended(_, _, _)
Extended(fs, acc, k) ==
  IF k > Len(GlobPatterns) THEN {acc}
  ELSE UNION {Extended(fs, acc \o e, k + 1) : e \in Perms(GlobSet(fs, GlobPatterns[k]))}

\* files a vendor checkout may hold
TreeUniverse ==
  {"sleuthkit/tsk/auto/auto.cpp",
   "sleuthkit/tsk/base/md5c.c",
   "sleuthkit/tsk/base/crc.c",
   "sleuthkit/tsk/docs/main.c",
   "sleuthkit/tsk/fs/ntfs.c",
   "sleuthkit/tsk/fs/ntfs.cpp",
   "sleuthkit/tsk/hashdb/idxonly.c",
   "sleuthkit/tsk/img/raw.c",
   "sleuthkit/tsk/vs/mm_open.c",
   "sleuthkit/tsk/base/tsk_base.h",
   "sleuthkit/tsk/base/.tmp.c",
   "sleuthkit/tsk/fs/sub/x.c",
   "sleuthkit/tsk/pool/pool.c",
   "sleuthkit/tools/fls.cpp"}

Trees == {t \in SUBSET TreeUniverse : Cardinality(t) <= MaxTree}

----------------------------------------------------------------------------
(* Text: lines.                                                            *)

\* the positions of P within lo..hi, ascending
RECURSIVE SortedPos(_, _, _)
SortedPos(P, lo, hi) ==
  IF lo > hi THEN <<>>
  ELSE IF lo = hi THEN (IF lo \in P THEN <<lo>> ELSE <<>>)
  ELSE LET mid == (lo + hi) \div 2
       IN  SortedPos(P, lo, mid) \o SortedPos(P, mid + 1, hi)

\* str.split("\n"): the pieces between the newlines, empty pieces kept
split(s) ==
  LET pos == SortedPos({i \in 1..Len(s) : Char(s, i) = "\n"}, 1, Len(s))
      n == Len(pos)
  IN  [k \in 1..(n + 1) |->
         LET from == IF k = 1 THEN 1 ELSE pos[k - 1] + 1
             to == IF k = n + 1 THEN Len(s) ELSE pos[k] - 1
         IN  IF from > to THEN "" ELSE SubSeq(s, from, to)]

\* "\n".join(lines[lo..hi])
RECURSIVE JoinRange(_, _, _)
JoinRange(lines, lo, hi) ==
  IF lo > hi THEN ""
  ELSE IF lo = hi THEN lines[lo]
  ELSE LET mid == (lo + hi) \div 2
       IN  JoinRange(lines, lo, mid) \o "\n" \o JoinRange(lines, mid + 1, hi)

join_lines(lines) == JoinRange(lines, 1, Len(lines))

\* the whitespace rstrip() removes (vertical tab and form feed left out)
Whitespace == " \t\n\r"

IsWhitespace(c) == \E i \in 1..Len(Whitespace) : Char(Whitespace, i) = c

\* bytes.rstrip(): trailing whitespace removed
rstrip(s) ==
  LET K == {i \in 1..Len(s) : ~ IsWhitespace(Char(s, i))}
  IN  IF K = {} THEN "" ELSE SubSeq(s, 1, Max(K))

----------------------------------------------------------------------------
(* The binding artifact and the build_ext command: BuildExtCommand.        *)

Missing == [exists |-> FALSE, readable |-> FALSE, content |-> ""]

HandEdited == [exists |-> TRUE, readable |-> TRUE, content |-> "hand-edited"]

Unreadable == [exists |-> TRUE, readable |-> FALSE, content |-> "hand-edited"]

Pytsk3States == {Missing, HandEdited, Unreadable}

\* a check for existence in place of the check for readability
access_exists(f) == f.exists

\* os.access(path, os.R_OK)
access_R_OK(f) == f.exists /\ f.readable

libtsk_header_files ==
  <<join(_libtsk_path, "libtsk.h"),
    join(join(_libtsk_path, "base"), "tsk_base.h"),
    join(join(_libtsk_path, "fs"), "tsk_fs.h"),
    join(join(_libtsk_path, "img"), "tsk_img.h"),
    join(join(_libtsk_path, "vs"), "tsk_vs.h"),
    "tsk3.h">>

\* the call generate_bindings.generate_bindings("pytsk3.c", headers,
\* initialization="tsk_init();")
GenerateCall ==
  [output_path |-> "pytsk3.c", headers |-> libtsk_header_files,
   initialization |-> "tsk_init();"]

\* the artifact after the generator has written it; the mode bits of an
\* existing file stay
Generated(f) ==
  [exists |-> TRUE, readable |-> IF f.exists THEN f.readable ELSE TRUE,
   content |-> "generated"]

CompilerTypes == {"msvc", "unix", "mingw32"}

\* a process started with subprocess, and the exit code it returned
Process(command, dir, returncode) ==
  [cmd |-> command, cwd |-> dir, returncode |-> returncode]

configure_command ==
  <<"sh", "configure", "--disable-java", "--without-afflib",
    "--without-libewf", "--without-zlib">>

\* lines the configuration script may write
ConfigureLines ==
  {"configure:", "configure:\r", "configure: ", " configure:",
   "configure: error", "checking", ""}

RECURSIVE SeqsUpTo(_, _)
SeqsUpTo(S, n) ==
  IF n = 0 THEN {<<>>}
  ELSE LET shorter == SeqsUpTo(S, n - 1)
       IN  shorter \cup {Append(q, x) : q \in {r \in shorter : Len(r) = n - 1}, x \in S}

\* the texts the configuration script may produce
ConfigureOutputs == {join_lines(ls) : ls \in SeqsUpTo(ConfigureLines, MaxOutLines) \ {<<>>}}

\* the macros of the msvc branch without the common HAVE_TSK_LIBTSK_H
msvc_macros_without_common == <<<<"WIN32", "1">>, <<"UNICODE", "1">>>>

msvc_macros ==
  <<<<"HAVE_TSK_LIBTSK_H", "">>, <<"WIN32", "1">>, <<"UNICODE", "1">>>>

configure_macros ==
  <<<<"HAVE_TSK_LIBTSK_H", "">>, <<"HAVE_CONFIG_H", "1">>,
    <<"LOCALEDIR", "\"/usr/share/locale\"">>>>

\* the loop with a flag that does not stay set: only banner lines are printed
RECURSIVE PrintLoopFlagReset(_, _)
PrintLoopFlagReset(lines, print_line) ==
  IF lines = <<>> THEN <<>>
  ELSE LET line == rstrip(Head(lines))
           flag == line = "configure:"
       IN  (IF flag THEN <<line>> ELSE <<>>) \o PrintLoopFlagReset(Tail(lines), flag)

\* the loop of configure_source_tree over the lines of the output: the lines
\* it prints, print_line being the flag on entry
RECURSIVE PrintLoop(_, _)
PrintLoop(lines, print_line) ==
  IF lines = <<>> THEN <<>>
  ELSE LET line == rstrip(Head(lines))
           flag == print_line \/ line = "configure:"
       IN  (IF flag THEN <<line>> ELSE <<>>) \o PrintLoop(Tail(lines), flag)

----------------------------------------------------------------------------
(* Regular expressions: re.sub for the patterns of the rule table.  A      *)
(* pattern is a sequence of elements, each a literal text or a character   *)
(* class repeated one or more times (greedy).                              *)

Lit(t) == [kind |-> "lit", neg |-> FALSE, chars |-> t]

\* [chars]+
Plus(t) == [kind |-> "plus", neg |-> FALSE, chars |-> t]

\* [^chars]+
PlusNot(t) == [kind |-> "plus", neg |-> TRUE, chars |-> t]

\* .+ : any character but a newline
PlusAny == PlusNot("\n")

InClass(c, e) == (\E i \in 1..Len(e.chars) : Char(e.chars, i) = c) # e.neg

\* s[from..to], empty when from > to
Slice(s, from, to) == IF from > to THEN "" ELSE SubSeq(s, from, to)

\* Match elements k.. of pat at position pos of s, as the backtracking
\* matcher does (a repeated class takes the longest run the rest of the
\* pattern can follow): the positions after each of the elements k.., or
\* <<>> if there is no match.
RECURSIVE Match(_, _, _, _)
Match(s, pat, k, pos) ==
  LET e == pat[k]
      rest(p) == IF k = Len(pat) THEN <<p>>
                 ELSE LET r == Match(s, pat, k + 1, p)
                      IN  IF r = <<>> THEN <<>> ELSE <<p>> \o r
  IN  IF e.kind = "lit"
      THEN IF pos + Len(e.chars) - 1 <= Len(s)
              /\ Slice(s, pos, pos + Len(e.chars) - 1) = e.chars
           THEN rest(pos + Len(e.chars))
           ELSE <<>>
      ELSE LET stop == {i \in pos..Len(s) : ~ InClass(Char(s, i), e)}
               run_end == IF stop = {} THEN Len(s) + 1 ELSE Min(stop)
               good == {p \in (pos + 1)..run_end : rest(p) # <<>>}
           IN  IF good = {} THEN <<>> ELSE rest(Max(good))

\* re.search(pattern, s) finds a match
HasMatch(s, pat) == \E i \in 1..Len(s) : Match(s, pat, 1, i) # <<>>

\* the replacement of one match: a string, the template \1 followed by a
\* string, or the function of configure.ac (the match is kept if group 1
\* starts with "tsk", dropped otherwise)
Expand(replace, group0, group1) ==
  CASE replace.kind = "string" -> replace.text
    [] replace.kind = "template" -> group1 \o replace.text
    [] replace.kind = "lambda" ->
         IF StartsWith(group1, "tsk") THEN group0 ELSE ""

\* re.sub(search, replace, s) from position pos on: every match, leftmost
\* first and not overlapping, is replaced
RECURSIVE SubFrom(_, _, _)
SubFrom(rule, s, pos) ==
  LET starts == {i \in pos..Len(s) : Match(s, rule.search, 1, i) # <<>>}
  IN  IF starts = {} THEN Slice(s, pos, Len(s))
      ELSE LET i == Min(starts)
               b == Match(s, rule.search, 1, i)
               end == b[Len(b)]
               group0 == Slice(s, i, end - 1)
               group1 == IF rule.group1 = 0 THEN ""
                         ELSE Slice(s, i, b[rule.group1] - 1)
           IN  Slice(s, pos, i - 1) \o Expand(rule.replace, group0, group1)
               \o SubFrom(rule, s, end)

\* a substitution that yields nothing when the pattern matches nowhere
re_sub_empty_on_no_match(rule, s) ==
  IF HasMatch(s, rule.search) THEN SubFrom(rule, s, 1) ELSE ""

re_sub(rule, s) == SubFrom(rule, s, 1)

----------------------------------------------------------------------------
(* The release update: UpdateCommand.                                      *)

\* time.strftime("%Y%m%d") on the day of the update
version == "20171107"

\* "%02d" % n
Format02d(n) ==
  IF n < 0 THEN "-" \o ToString(0 - n)
  ELSE IF n < 10 THEN "0" \o ToString(n)
  ELSE ToString(n)

\* UpdateCommand.timezone_string for time.timezone = tz (seconds)
timezone_string(tz) ==
  LET minutes == tz \div 60
      timezone_hours == minutes \div 60
      timezone_minutes == minutes % 60
  IN  IF timezone_hours < 0
      THEN "-" \o Format02d(0 - timezone_hours) \o Format02d(timezone_minutes)
      ELSE "+" \o Format02d(timezone_hours) \o Format02d(timezone_minutes)

\* UpdateCommand.version_pkg
version_pkg(tz) == "Tue, 07 Nov 2017 10:00:00" \o " " \o timezone_string(tz)

String(t) == [kind |-> "string", text |-> t]

Rule(search, group1, replace) ==
  [search |-> search, group1 |-> group1, replace |-> replace]

raw_c == "sleuthkit/tsk/img/raw.c"

\* UpdateCommand.files: the rule table, in the order of the source
files(tz) ==
  << [filename |-> "sleuthkit/configure.ac",
      rules |-> << Rule(<<Plus("abcdefghijklmnopqrstuvwxyz_/"), Lit("/Makefile")>>, 1,
                        [kind |-> "lambda", text |-> ""]) >>],
     [filename |-> "sleuthkit/Makefile.am",
      rules |-> << Rule(<<Lit("SUBDIRS = "), PlusAny>>, 0, String("SUBDIRS = tsk")) >>],
     [filename |-> "class_parser.py",
      rules |-> << Rule(<<Lit("VERSION = \""), PlusNot("\""), Lit("\"")>>, 0,
                        String("VERSION = \"" \o version \o "\"")) >>],
     [filename |-> "dpkg/changelog",
      rules |-> << Rule(<<Lit("pytsk3 ("), PlusNot(")"), Lit(")")>>, 0,
                        String("pytsk3 (" \o version \o "-1)")),
                   Rule(<<Lit("<"), PlusNot(">"), Lit(">"), PlusAny>>, 3,
                        [kind |-> "template", text |-> "  " \o version_pkg(tz)]) >>],
     [filename |-> "sleuthkit/tsk/fs/fs_name.c",
      rules |-> << Rule(<<Lit("#include \"tsk_fs_i.h\"")>>, 0,
                        String("#include \"tsk_fs_i.h\"\n\n#include <time.h>\n\n#ifndef TZNAME\n#define TZNAME __tzname\n#endif")) >>],
     [filename |-> "sleuthkit/tsk/fs/fs_open.c",
      rules |-> << Rule(<<Lit("const char *name_first;")>>, 0,
                        String("/* const char \\*name_first; */")),
                   Rule(<<Lit("        const struct {")>>, 0,
                        String("        /* const struct {")),
                   Rule(<<Lit("        };")>>, 0, String("        }; */")),
                   Rule(<<Lit("if (a_img_info == NULL) {")>>, 0,
                        String("int i = 0;\n    const char *name_first;\n    const struct {\n        char* name;\n        TSK_FS_INFO* (*open)(TSK_IMG_INFO*, TSK_OFF_T,\n                             TSK_FS_TYPE_ENUM, uint8_t);\n        TSK_FS_TYPE_ENUM type;\n    } FS_OPENERS[] = {\n        { \"NTFS\",     ntfs_open,    TSK_FS_TYPE_NTFS_DETECT    },\n        { \"FAT\",      fatfs_open,   TSK_FS_TYPE_FAT_DETECT     },\n        { \"EXT2/3/4\", ext2fs_open,  TSK_FS_TYPE_EXT_DETECT     },\n        { \"UFS\",      ffs_open,     TSK_FS_TYPE_FFS_DETECT     },\n        { \"YAFFS2\",   yaffs2_open,  TSK_FS_TYPE_YAFFS2_DETECT  },\n#if TSK_USE_HFS\n        { \"HFS\",      hfs_open,     TSK_FS_TYPE_HFS_DETECT     },\n#endif\n        { \"ISO9660\",  iso9660_open, TSK_FS_TYPE_ISO9660_DETECT }\n    };\n\n    if (a_img_info == NULL) {")),
                   Rule(<<Lit("for (int i = 0;")>>, 0, String("for (i = 0;")) >>],
     [filename |-> raw_c,
      rules |-> << Rule(<<Lit("#include \"raw.h\"")>>, 0,
                        String("#include \"raw.h\"\n\n#ifndef TSK_WIN32\n#include <sys/types.h>\n#include <sys/stat.h>\n#include <unistd.h>\n#include <fcntl.h>\n#endif\n\n#ifndef S_IFMT\n#define S_IFMT __S_IFMT\n#endif\n\n#ifndef S_IFDIR\n#define S_IFDIR __S_IFDIR\n#endif")) >>] >>

\* patch_sleuthkit, the inner loop: the rules applied in list order
RECURSIVE ApplyRules(_, _, _)
ApplyRules(rules, k, s) ==
  IF k > Len(rules) THEN s
  ELSE ApplyRules(rules, k + 1, re_sub(rules[k], s))

\* the index lines.pop() takes the line from, and the one lines.insert()
\* puts it at (zero-based)
PopIndex == 381
InsertIndex == 372

\* lines.pop(PopIndex) raises IndexError
pop_raises(lines) == Len(lines) <= PopIndex

\* the two lines exchanged in place of the one moved
LineSwapExchanged(lines) ==
  [i \in 1..Len(lines) |->
     IF i = InsertIndex + 1 THEN lines[PopIndex + 1]
     ELSE IF i = PopIndex + 1 THEN lines[InsertIndex + 1]
     ELSE lines[i]]

\* lines after swap = lines.pop(PopIndex); lines.insert(InsertIndex, swap)
LineSwap(lines) ==
  LET swap == lines[PopIndex + 1]
      popped == SubSeq(lines, 1, PopIndex) \o SubSeq(lines, PopIndex + 2, Len(lines))
  IN  SubSeq(popped, 1, InsertIndex) \o <<swap>>
      \o SubSeq(popped, InsertIndex + 1, Len(popped))

\* the text patch_sleuthkit computes for a file before it writes it
Patched(filename, rules, s) ==
  LET d == ApplyRules(rules, 1, s)
  IN  IF filename = raw_c THEN join_lines(LineSwap(split(d))) ELSE d

----------------------------------------------------------------------------
(* The files the release update works on.                                  *)

\* local time zones of the packager, as time.timezone
Timezones == {0 - 3600}

version_txt == "version.txt"

\* texts of a rule table file other than raw.c: the first as the vendor
\* release or the project has it, the others with fewer or no matches
Variants(filename) ==
  CASE filename = "sleuthkit/configure.ac" ->
         <<"AC_CONFIG_FILES([Makefile\n tsk/Makefile\n tools/Makefile])\n",
           "AC_INIT(sleuthkit)\n">>
    [] filename = "sleuthkit/Makefile.am" ->
         <<"SUBDIRS = tsk tools tests\n", "EXTRA_DIST = README\n">>
    [] filename = "class_parser.py" ->
         <<"VERSION = \"20170101\"\n", "import sys\n">>
    [] filename = "dpkg/changelog" ->
         <<"pytsk3 (20170101-1) unstable\n\n -- J M <j@x.org>  Sun, 01 Jan 2017\n",
           "pytsk3 unreleased\n">>
    [] filename = "sleuthkit/tsk/fs/fs_name.c" ->
         <<"#include \"tsk_fs_i.h\"\nint x;\n", "int x;\n">>
    [] filename = "sleuthkit/tsk/fs/fs_open.c" ->
         <<"const char *name_first;\n        const struct {\n        };\nif (a_img_info == NULL) {\nfor (int i = 0;\n",
           "int y;\n",
           "int y;\nfor (int i = 0; i < 3; i++)\n">>

OtherFiles ==
  {"sleuthkit/configure.ac", "sleuthkit/Makefile.am", "class_parser.py",
   "dpkg/changelog", "sleuthkit/tsk/fs/fs_name.c", "sleuthkit/tsk/fs/fs_open.c"}

\* a source file of the project that the rule table does not name
ProjectFiles == {"tsk3.c"}

\* raw.c of n lines: the include line first if has_include, then numbered
\* lines
RawText(has_include, n) ==
  join_lines([i \in 1..n |->
                IF i = 1 /\ has_include THEN "#include \"raw.h\"" ELSE ToString(i)])

\* raw.c before the update: whether it has the include line, and its number
\* of lines (the include line becomes 16 lines when it is patched)
RawShapes ==
  {<<TRUE, 364>>, <<TRUE, 365>>, <<TRUE, 366>>,
   <<FALSE, 380>>, <<FALSE, 381>>, <<FALSE, 382>>}
  \cup (BOOLEAN \X (383..MaxRawLines))

\* raw.c as the vendor release has it: with the include line and long
\* enough for the line swap
PristineShape == <<TRUE, 383>>

\* which text each other file of the rule table has: at most MaxVariants of
\* them a text that is not the pristine one
VariantChoices ==
  {c \in [OtherFiles -> 1..3] :
     /\ \A f \in OtherFiles : c[f] <= Len(Variants(f))
     /\ Cardinality({f \in OtherFiles : c[f] # 1}) <= MaxVariants}

\* the contents of the files of the rule table and of version.txt before a
\* release update: raw.c in every shape with the other files pristine, and
\* the other files in every choice of variants with raw.c pristine
UpdateTexts ==
  {[f \in OtherFiles \cup {raw_c, version_txt} \cup ProjectFiles |->
      IF f = raw_c THEN RawText(cs[2][1], cs[2][2])
      ELSE IF f = version_txt THEN "20170101"
      ELSE IF f \in ProjectFiles THEN "#include \"tsk3.h\"\n"
      ELSE Variants(f)[cs[1][f]]] :
     cs \in {x \in VariantChoices \X RawShapes :
               \/ \A f \in OtherFiles : x[1][f] = 1
               \/ x[2] = PristineShape}}

\* git stash, git reset --hard, git checkout <tag> in the vendor directory:
\* the tracked vendor files are as the pinned tag has them
RestoreVendor(t) ==
  [f \in DOMAIN t |-> IF StartsWith(f, "sleuthkit/") THEN upstream[f] ELSE t[f]]

----------------------------------------------------------------------------
(* The program: python setup.py <command>.                                 *)

\* the files of a small vendor checkout
SmallTree == {"sleuthkit/tsk/base/md5c.c", "sleuthkit/tsk/img/raw.c"}

NoText == [f \in {} |-> ""]

\* the state when the script starts: ProjectBuilder(setup_args, sys.argv)
\* has been constructed and build() is about to run
Start(command, fs, fs_text) ==
  /\ argv = command
  /\ pc = "build"
  /\ tree = fs
  /\ _source_files = SeedSourceFiles
  /\ manifests = <<>>
  /\ pytsk3_at_start = pytsk3
  /\ procs = <<>>
  /\ printed = <<>>
  /\ define = <<>>
  /\ gen_calls = <<>>
  /\ build_ext_runs = 0
  /\ text = fs_text
  /\ text_at_start = fs_text
  /\ upstream = fs_text
  /\ steps = <<>>
  /\ data = ""
  /\ file_index = 0
  /\ output = ""
  /\ error = ""
  /\ timezone \in Timezones
  /\ sdist_runs = 0

\* setup() called with the source files not yet looked for
build_deferred ==
  /\ pc = "build"
  /\ pc' = "setup"
  /\ UNCHANGED <<sdist_runs, libtsk_readable,
                 timezone, argv, tree, _source_files, manifests, compiler_type,
                 pytsk3, pytsk3_at_start, procs, printed, define, gen_calls,
                 build_ext_runs, text, text_at_start, upstream, steps, data,
                 file_index, output, error>>

\* ProjectBuilder.build up to the call of setup(): glob every sub library
\* for *.c and *.cpp, extend self._source_files, sort, build the Extension
build ==
  /\ pc = "build"
  /\ \E sf \in Extended(tree, _source_files, 1) :
       /\ _source_files' = sf
       /\ manifests' = Append(manifests, sorted(sf))
  /\ pc' = "setup"
  /\ UNCHANGED <<sdist_runs, libtsk_readable,
                 timezone, argv, tree, compiler_type, pytsk3, pytsk3_at_start, procs,
                 printed, define, gen_calls, build_ext_runs, text,
                 text_at_start, upstream, steps, data, file_index, output,
                 error>>

\* setup(cmdclass=..., ext_modules=...): run the command of the command line
setup ==
  /\ pc = "setup"
  /\ pc' = CASE argv = "build_ext" -> "configure_source_tree"
             [] argv = "update" -> "git stash"
             [] argv = "sdist" -> "sdist"
             [] OTHER -> "done"
  /\ UNCHANGED <<sdist_runs, libtsk_readable,
                 timezone, argv, tree, _source_files, manifests, compiler_type, pytsk3,
                 pytsk3_at_start, procs, printed, define, gen_calls,
                 build_ext_runs, text, text_at_start, upstream, steps, data,
                 file_index, output, error>>

\* a further build() on the same ProjectBuilder
build_again ==
  /\ pc = "done"
  /\ argv = "egg_info"
  /\ Len(manifests) < MaxBuilds
  /\ pc' = "build"
  /\ UNCHANGED <<sdist_runs, libtsk_readable,
                 timezone, argv, tree, _source_files, manifests, compiler_type, pytsk3,
                 pytsk3_at_start, procs, printed, define, gen_calls,
                 build_ext_runs, text, text_at_start, upstream, steps, data,
                 file_index, output, error>>

\* BuildExtCommand.run, configure_source_tree with the msvc compiler: the
\* macros are returned without a process being started
configure_source_tree_msvc ==
  /\ pc = "configure_source_tree"
  /\ compiler_type = "msvc"
  /\ define' = msvc_macros
  /\ pc' = "binding_trigger"
  /\ UNCHANGED <<sdist_runs, libtsk_readable,
                 timezone, argv, tree, _source_files, manifests, compiler_type, pytsk3,
                 pytsk3_at_start, procs, printed, gen_calls, build_ext_runs,
                 text, text_at_start, upstream, steps, data, file_index,
                 output, error>>

\* configure_source_tree with another compiler, the configuration script
\* exiting with 0: its output is filtered and printed, the macros returned
configure_source_tree_configured ==
  /\ pc = "configure_source_tree"
  /\ compiler_type # "msvc"
  /\ procs' = Append(procs, Process(configure_command, "sleuthkit", 0))
  /\ \E out \in ConfigureOutputs :
       /\ output' = out
       /\ printed' = printed \o PrintLoop(split(out), FALSE)
  /\ define' = configure_macros
  /\ pc' = "binding_trigger"
  /\ UNCHANGED <<sdist_runs, libtsk_readable,
                 timezone, argv, tree, _source_files, manifests, compiler_type, pytsk3,
                 pytsk3_at_start, gen_calls, build_ext_runs, text,
                 text_at_start, upstream, steps, data, file_index, error>>

\* a failure of the configuration script that is not noticed: the output is
\* not printed and the macros are returned
configure_source_tree_failure_ignored ==
  /\ pc = "configure_source_tree"
  /\ compiler_type # "msvc"
  /\ procs' = Append(procs, Process(configure_command, "sleuthkit", 1))
  /\ \E out \in ConfigureOutputs : output' = out
  /\ define' = configure_macros
  /\ pc' = "binding_trigger"
  /\ UNCHANGED <<sdist_runs, libtsk_readable,
                 timezone, argv, tree, _source_files, manifests, compiler_type,
                 pytsk3, pytsk3_at_start, printed, gen_calls, build_ext_runs,
                 text, text_at_start, upstream, steps, data, file_index,
                 error>>

\* configure_source_tree, the configuration script exiting with non-zero:
\* subprocess.check_output raises CalledProcessError, which ends the command
configure_source_tree_failed ==
  /\ pc = "configure_source_tree"
  /\ compiler_type # "msvc"
  /\ procs' = Append(procs, Process(configure_command, "sleuthkit", 1))
  /\ \E out \in ConfigureOutputs : output' = out
  /\ error' = "CalledProcessError"
  /\ pc' = "aborted"
  /\ UNCHANGED <<sdist_runs, libtsk_readable,
                 timezone, argv, tree, _source_files, manifests, compiler_type, pytsk3,
                 pytsk3_at_start, printed, define, gen_calls, build_ext_runs,
                 text, text_at_start, upstream, steps, data, file_index>>

\* BuildExtCommand.run: pytsk3.c is readable, the bindings are not generated
run_bindings_present ==
  /\ pc = "binding_trigger"
  /\ access_R_OK(pytsk3)
  /\ pc' = "build_ext.run"
  /\ UNCHANGED <<sdist_runs, libtsk_readable,
                 timezone, argv, tree, _source_files, manifests, compiler_type, pytsk3,
                 pytsk3_at_start, procs, printed, define, gen_calls,
                 build_ext_runs, text, text_at_start, upstream, steps, data,
                 file_index, output, error>>

\* the bindings generated without a look at pytsk3.c
run_generate_bindings_unguarded ==
  /\ pc = "binding_trigger"
  /\ gen_calls' = Append(gen_calls, GenerateCall)
  /\ pytsk3' = Generated(pytsk3)
  /\ pc' = "build_ext.run"
  /\ UNCHANGED <<sdist_runs, libtsk_readable,
                 timezone, argv, tree, _source_files, manifests, compiler_type,
                 pytsk3_at_start, procs, printed, define, build_ext_runs,
                 text, text_at_start, upstream, steps, data, file_index,
                 output, error>>

\* BuildExtCommand.run: pytsk3.c is not readable, the bindings are generated
run_generate_bindings ==
  /\ pc = "binding_trigger"
  /\ ~ access_R_OK(pytsk3)
  /\ gen_calls' = Append(gen_calls, GenerateCall)
  /\ pytsk3' = Generated(pytsk3)
  /\ pc' = "build_ext.run"
  /\ UNCHANGED <<sdist_runs, libtsk_readable,
                 timezone, argv, tree, _source_files, manifests, compiler_type,
                 pytsk3_at_start, procs, printed, define, build_ext_runs,
                 text, text_at_start, upstream, steps, data, file_index,
                 output, error>>

\* BuildExtCommand.run: build_ext.run(self)
build_ext_run ==
  /\ pc = "build_ext.run"
  /\ build_ext_runs' = build_ext_runs + 1
  /\ pc' = "done"
  /\ UNCHANGED <<sdist_runs, libtsk_readable,
                 timezone, argv, tree, _source_files, manifests, compiler_type, pytsk3,
                 pytsk3_at_start, procs, printed, define, gen_calls, text,
                 text_at_start, upstream, steps, data, file_index, output,
                 error>>

\* a call that does not look at the exit code (subprocess.call)
call_ignoring_exit_code(at, command, dir, next, restores) ==
  /\ pc = at
  /\ \E returncode \in {0, 1} :
       procs' = Append(procs, Process(command, dir, returncode))
  /\ steps' = Append(steps, at)
  /\ text' = IF restores THEN RestoreVendor(text) ELSE text
  /\ pc' = next
  /\ UNCHANGED <<sdist_runs, libtsk_readable,
                 timezone, argv, tree, _source_files, manifests, compiler_type,
                 pytsk3, pytsk3_at_start, printed, define, gen_calls,
                 build_ext_runs, text_at_start, upstream, data, file_index,
                 output, error>>

\* subprocess.check_call(command, cwd=dir) at position at: the process is
\* started; exit code 0 lets the command go on to next, another exit code
\* raises CalledProcessError, which ends the command
check_call(at, command, dir, next, restores) ==
  /\ pc = at
  /\ \E returncode \in {0, 1} :
       /\ procs' = Append(procs, Process(command, dir, returncode))
       /\ IF returncode = 0
          THEN /\ steps' = Append(steps, at)
               /\ text' = IF restores THEN RestoreVendor(text) ELSE text
               /\ pc' = next
               /\ error' = error
          ELSE /\ pc' = "aborted"
               /\ error' = "CalledProcessError"
               /\ UNCHANGED <<steps, text>>
  /\ UNCHANGED <<sdist_runs, libtsk_readable,
                 timezone, argv, tree, _source_files, manifests, compiler_type,
                 pytsk3, pytsk3_at_start, printed, define, gen_calls,
                 build_ext_runs, text_at_start, upstream, data, file_index,
                 output>>

\* UpdateCommand.run, in the order of the source
git_stash ==
  /\ pc = "git stash"
  /\ check_call("git stash", <<"git", "stash">>, "sleuthkit",
                "git submodule init", TRUE)

git_submodule_init ==
  /\ pc = "git submodule init"
  /\ check_call("git submodule init", <<"git", "submodule", "init">>, ".",
                "git submodule update", FALSE)

git_submodule_update ==
  /\ pc = "git submodule update"
  /\ check_call("git submodule update", <<"git", "submodule", "update">>, ".",
                "git reset --hard", FALSE)

git_reset_hard ==
  /\ pc = "git reset --hard"
  /\ check_call("git reset --hard", <<"git", "reset", "--hard">>, "sleuthkit",
                "git clean", TRUE)

\* git clean followed at once by the patches, the checkout of the tag left out
git_clean_then_patch ==
  /\ pc = "git clean"
  /\ check_call("git clean", <<"git", "clean", "-x", "-f", "-d">>, "sleuthkit",
                "patch_sleuthkit", FALSE)

git_clean ==
  /\ pc = "git clean"
  /\ check_call("git clean", <<"git", "clean", "-x", "-f", "-d">>, "sleuthkit",
                "git checkout master", FALSE)

git_checkout_master ==
  /\ pc = "git checkout master"
  /\ check_call("git checkout master", <<"git", "checkout", "master">>,
                "sleuthkit", "git pull", FALSE)

git_pull ==
  /\ pc = "git pull"
  /\ check_call("git pull", <<"git", "pull">>, "sleuthkit", "git fetch --tags",
                FALSE)

git_fetch_tags ==
  /\ pc = "git fetch --tags"
  /\ check_call("git fetch --tags", <<"git", "fetch", "--tags">>, "sleuthkit",
                "git checkout tag", FALSE)

git_checkout_tag ==
  /\ pc = "git checkout tag"
  /\ check_call("git checkout tag",
                <<"git", "checkout", "tags/sleuthkit-4.4.2">>, "sleuthkit",
                "patch_sleuthkit", TRUE)

\* patch_sleuthkit, the next file of the table: it is read, its rules are
\* applied in order and, in raw.c, the line is moved
patch_sleuthkit_rewrite ==
  /\ pc = "patch_sleuthkit"
  /\ LET f == files(timezone)[file_index + 1]
         d == ApplyRules(f.rules, 1, text[f.filename])
     IN  /\ ~ (f.filename = raw_c /\ pop_raises(split(d)))
         /\ data' = Patched(f.filename, f.rules, text[f.filename])
  /\ file_index' = file_index + 1
  /\ pc' = "open w"
  /\ UNCHANGED <<sdist_runs, libtsk_readable,
                 timezone, argv, tree, _source_files, manifests, compiler_type,
                 pytsk3, pytsk3_at_start, procs, printed, define, gen_calls,
                 build_ext_runs, text, text_at_start, upstream, steps, output,
                 error>>

\* an IndexError that is caught: raw.c is written without the line moved
patch_sleuthkit_index_error_caught ==
  /\ pc = "patch_sleuthkit"
  /\ LET f == files(timezone)[file_index + 1]
         d == ApplyRules(f.rules, 1, text[f.filename])
     IN  /\ f.filename = raw_c
         /\ pop_raises(split(d))
         /\ data' = d
  /\ file_index' = file_index + 1
  /\ pc' = "open w"
  /\ UNCHANGED <<sdist_runs, libtsk_readable,
                 timezone, argv, tree, _source_files, manifests, compiler_type,
                 pytsk3, pytsk3_at_start, procs, printed, define, gen_calls,
                 build_ext_runs, text, text_at_start, upstream, steps, output,
                 error>>

\* patch_sleuthkit, raw.c: lines.pop() raises IndexError, which ends the
\* command before the file is opened for writing
patch_sleuthkit_index_error ==
  /\ pc = "patch_sleuthkit"
  /\ LET f == files(timezone)[file_index + 1]
         d == ApplyRules(f.rules, 1, text[f.filename])
     IN  /\ f.filename = raw_c
         /\ pop_raises(split(d))
         /\ data' = d
  /\ error' = "IndexError"
  /\ pc' = "aborted"
  /\ UNCHANGED <<sdist_runs, libtsk_readable,
                 timezone, argv, tree, _source_files, manifests, compiler_type,
                 pytsk3, pytsk3_at_start, procs, printed, define, gen_calls,
                 build_ext_runs, text, text_at_start, upstream, steps,
                 file_index, output>>

\* patch_sleuthkit: open(filename, "w") truncates the file
patch_sleuthkit_open_w ==
  /\ pc = "open w"
  /\ text' = [text EXCEPT ![files(timezone)[file_index].filename] = ""]
  /\ pc' = "write"
  /\ UNCHANGED <<sdist_runs, libtsk_readable,
                 timezone, argv, tree, _source_files, manifests, compiler_type,
                 pytsk3, pytsk3_at_start, procs, printed, define, gen_calls,
                 build_ext_runs, text_at_start, upstream, steps, data,
                 file_index, output, error>>

\* patch_sleuthkit: fd.write(data) and the file is closed; after the last
\* file patch_sleuthkit returns
patch_sleuthkit_write ==
  /\ pc = "write"
  /\ text' = [text EXCEPT ![files(timezone)[file_index].filename] = data]
  /\ IF file_index = Len(files(timezone))
     THEN /\ steps' = Append(steps, "patch_sleuthkit")
          /\ pc' = "./bootstrap"
     ELSE /\ steps' = steps
          /\ pc' = "patch_sleuthkit"
  /\ UNCHANGED <<sdist_runs, libtsk_readable,
                 timezone, argv, tree, _source_files, manifests, compiler_type,
                 pytsk3, pytsk3_at_start, procs, printed, define, gen_calls,
                 build_ext_runs, text_at_start, upstream, data, file_index,
                 output, error>>

\* ./bootstrap run whatever the default compiler is
bootstrap_always ==
  /\ pc = "./bootstrap"
  /\ check_call("./bootstrap", <<"./bootstrap">>, "sleuthkit", "version.txt",
                FALSE)

\* the default compiler is not msvc: ./bootstrap is run in the vendor
\* directory
bootstrap ==
  /\ pc = "./bootstrap"
  /\ compiler_type # "msvc"
  /\ check_call("./bootstrap", <<"./bootstrap">>, "sleuthkit", "version.txt",
                FALSE)

\* the default compiler is msvc: ./bootstrap is not run
skip_bootstrap ==
  /\ pc = "./bootstrap"
  /\ compiler_type = "msvc"
  /\ pc' = "version.txt"
  /\ UNCHANGED <<sdist_runs, libtsk_readable,
                 timezone, argv, tree, _source_files, manifests, compiler_type,
                 pytsk3, pytsk3_at_start, procs, printed, define, gen_calls,
                 build_ext_runs, text, text_at_start, upstream, steps, data,
                 file_index, output, error>>

\* the version of the day written to a file other than version.txt
write_version_wrong_file ==
  /\ pc = "version.txt"
  /\ text' = [text EXCEPT !["tsk3.c"] = version]
  /\ steps' = Append(steps, "version.txt")
  /\ pc' = "generate_bindings"
  /\ UNCHANGED <<sdist_runs, libtsk_readable,
                 timezone, argv, tree, _source_files, manifests, compiler_type,
                 pytsk3, pytsk3_at_start, procs, printed, define, gen_calls,
                 build_ext_runs, text_at_start, upstream, data, file_index,
                 output, error>>

\* version.txt is written with the version of the day
write_version ==
  /\ pc = "version.txt"
  /\ text' = [text EXCEPT ![version_txt] = version]
  /\ steps' = Append(steps, "version.txt")
  /\ pc' = "generate_bindings"
  /\ UNCHANGED <<sdist_runs, libtsk_readable,
                 timezone, argv, tree, _source_files, manifests, compiler_type,
                 pytsk3, pytsk3_at_start, procs, printed, define, gen_calls,
                 build_ext_runs, text_at_start, upstream, data, file_index,
                 output, error>>

\* the bindings are generated, whether pytsk3.c is there or not
update_generate_bindings ==
  /\ pc = "generate_bindings"
  /\ gen_calls' = Append(gen_calls, GenerateCall)
  /\ pytsk3' = Generated(pytsk3)
  /\ steps' = Append(steps, "generate_bindings")
  /\ pc' = "done"
  /\ UNCHANGED <<sdist_runs, libtsk_readable,
                 timezone, argv, tree, _source_files, manifests, compiler_type,
                 pytsk3_at_start, procs, printed, define, build_ext_runs,
                 text, text_at_start, upstream, data, file_index, output,
                 error>>

----------------------------------------------------------------------------
(* Specifications.                                                         *)

\* Source Discovery over every small vendor checkout, run once or again
InitDiscovery ==
  /\ libtsk_readable = TRUE
  /\ compiler_type = "unix"
  /\ pytsk3 = Missing
  /\ \E fs \in Trees : Start("egg_info", fs, NoText)

NextDiscovery == build \/ setup \/ build_again

SpecDiscovery == InitDiscovery /\ [][NextDiscovery]_vars

\* python setup.py build_ext
InitBuild ==
  /\ libtsk_readable = TRUE
  /\ compiler_type \in CompilerTypes
  /\ pytsk3 \in Pytsk3States
  /\ Start("build_ext", SmallTree, NoText)

NextBuild ==
  \/ build
  \/ setup
  \/ configure_source_tree_msvc
  \/ configure_source_tree_configured
  \/ configure_source_tree_failed
  \/ run_bindings_present
  \/ run_generate_bindings
  \/ build_ext_run

SpecBuild == InitBuild /\ [][NextBuild]_vars

\* python setup.py update
InitUpdate ==
  /\ libtsk_readable = TRUE
  /\ compiler_type \in {"msvc", "unix"}
  /\ pytsk3 \in {Missing, HandEdited}
  /\ \E t \in UpdateTexts : Start("update", SmallTree, t)

NextUpdate ==
  \/ build
  \/ setup
  \/ git_stash
  \/ git_submodule_init
  \/ git_submodule_update
  \/ git_reset_hard
  \/ git_clean
  \/ git_checkout_master
  \/ git_pull
  \/ git_fetch_tags
  \/ git_checkout_tag
  \/ patch_sleuthkit_rewrite
  \/ patch_sleuthkit_index_error
  \/ patch_sleuthkit_open_w
  \/ patch_sleuthkit_write
  \/ bootstrap
  \/ skip_bootstrap
  \/ write_version
  \/ update_generate_bindings

SpecUpdate == InitUpdate /\ [][NextUpdate]_vars

----------------------------------------------------------------------------
(* Properties of the build: Binding Trigger, Toolchain Prober, Source      *)
(* Discovery.                                                              *)

\* positions of the build_ext command after the Binding Trigger
AfterTrigger == pc \in {"build_ext.run", "done"} /\ argv = "build_ext"

\* positions of the build_ext command after configure_source_tree returned
AfterProber ==
  pc \in {"binding_trigger", "build_ext.run", "done"} /\ argv = "build_ext"

DeclaredHeaders ==
  <<"sleuthkit/tsk/libtsk.h", "sleuthkit/tsk/base/tsk_base.h",
    "sleuthkit/tsk/fs/tsk_fs.h", "sleuthkit/tsk/img/tsk_img.h",
    "sleuthkit/tsk/vs/tsk_vs.h", "tsk3.h">>

GeneratedOnce ==
  /\ Len(gen_calls) = 1
  /\ gen_calls[1].output_path = "pytsk3.c"
  /\ gen_calls[1].initialization = "tsk_init();"
  /\ gen_calls[1].headers = DeclaredHeaders

\* C1 as stated: in a build, a pytsk3.c that exists when the Binding Trigger
\* is reached is not regenerated and keeps its content, and a missing
\* pytsk3.c makes the generator run exactly once with output pytsk3.c,
\* initialization tsk_init(); and the headers in the declared order.
C1_Original ==
  /\ Len(gen_calls) <= 1
  /\ AfterTrigger =>
       IF pytsk3_at_start.exists
       THEN gen_calls = <<>> /\ pytsk3 = pytsk3_at_start
       ELSE GeneratedOnce

\* C1 amended: in a build, a pytsk3.c that exists and is readable when the
\* Binding Trigger is reached is not regenerated and keeps its content; a
\* pytsk3.c that is missing or not readable makes the generator run exactly
\* once in that build, with output pytsk3.c, initialization tsk_init(); and
\* the headers in the declared order.
C1_BindingTrigger ==
  /\ Len(gen_calls) <= 1
  /\ AfterTrigger =>
       IF pytsk3_at_start.exists /\ pytsk3_at_start.readable
       THEN gen_calls = <<>> /\ pytsk3 = pytsk3_at_start
       ELSE GeneratedOnce

C1_Witness ==
  /\ AfterTrigger
  /\ pytsk3_at_start = Unreadable
  /\ Len(gen_calls) = 1

MacroNames(macros) == {macros[i][1] : i \in 1..Len(macros)}

\* C2 as stated: with the msvc compiler the Toolchain Prober returns macros
\* named exactly WIN32 and UNICODE and starts no external process.
C2_Original ==
  (AfterProber /\ compiler_type = "msvc") =>
    /\ MacroNames(define) = {"WIN32", "UNICODE"}
    /\ procs = <<>>

\* C2 amended: with the msvc compiler the Toolchain Prober returns macros
\* named exactly HAVE_TSK_LIBTSK_H, WIN32 and UNICODE and starts no external
\* process.
C2_MsvcMacros ==
  (AfterProber /\ compiler_type = "msvc") =>
    /\ MacroNames(define) = {"HAVE_TSK_LIBTSK_H", "WIN32", "UNICODE"}
    /\ Len(define) = 3
    /\ procs = <<>>

C2_Witness == pc = "binding_trigger" /\ compiler_type = "msvc" /\ define # <<>>

ConfigureOnce ==
  /\ Len(procs) = 1
  /\ procs[1].returncode = 0
  /\ procs[1].cwd = "sleuthkit"
  /\ procs[1].cmd = <<"sh", "configure", "--disable-java", "--without-afflib",
                      "--without-libewf", "--without-zlib">>

\* the lines of the captured output, each without its trailing whitespace
StrippedLines == [i \in 1..Len(split(output)) |-> rstrip(split(output)[i])]

\* lines i.. of the output, without trailing whitespace; none when the set
\* of banner positions is empty
TailFrom(B) ==
  IF B = {} THEN <<>> ELSE SubSeq(StrippedLines, Min(B), Len(StrippedLines))

IsAscending(s) == \A i \in 1..(Len(s) - 1) : StrLessEq(s[i], s[i + 1])

IsStrictlyAscending(s) == \A i \in 1..(Len(s) - 1) : StrLess(s[i], s[i + 1])

\* the files directly under dir whose name ends with suffix and is not hidden
Under(fs, dir, suffix) ==
  {p \in fs :
     \E n \in 1..Len(p) :
       /\ SubSeq(p, 1, n) = dir \o "/"
       /\ \A i \in (n + 1)..Len(p) : Char(p, i) # "/"
       /\ n + Len(suffix) <= Len(p)
       /\ SubSeq(p, Len(p) - Len(suffix) + 1, Len(p)) = suffix
       /\ Char(p, n + 1) # "."}

\* what the manifest of a checkout is to contain
ManifestFiles(fs) ==
  {"class.c", "error.c", "tsk3.c", "pytsk3.c", "talloc/talloc.c"}
  \cup UNION {Under(fs, "sleuthkit/tsk/" \o lib, suffix) :
                lib \in {"auto", "base", "docs", "fs", "hashdb", "img", "vs"},
                suffix \in {".c", ".cpp"}}

\* C4: the manifest handed to the extension build is in ascending order and
\* holds the seed files and the *.c and *.cpp files directly under the seven
\* sub libraries, nothing else; that of a new builder is strictly ascending,
\* hence the one sequence of these files whatever the enumeration order of
\* the directories.
C4_ManifestSorted ==
  /\ \A k \in 1..Len(manifests) :
       /\ IsAscending(manifests[k])
       /\ Range(manifests[k]) = ManifestFiles(tree)
  /\ Len(manifests) >= 1 => IsStrictlyAscending(manifests[1])

C4_Witness ==
  /\ Len(manifests) = 1
  /\ tree = {"sleuthkit/tsk/base/md5c.c", "sleuthkit/tsk/base/crc.c"}
  /\ _source_files[6] = "sleuthkit/tsk/base/md5c.c"
  /\ manifests[1][4] = "sleuthkit/tsk/base/crc.c"

NoDuplicates(s) == \A i, j \in 1..Len(s) : s[i] = s[j] => i = j

\* C5: no path occurs twice in a manifest handed to the extension build, and
\* the manifest of a second build() on the same builder over the same tree
\* is the manifest of the first.
C5_Deduplicated ==
  /\ \A k \in 1..Len(manifests) : NoDuplicates(manifests[k])
  /\ Len(manifests) >= 2 => manifests[2] = manifests[1]

\* C8: when the configuration script exits with non-zero the build is
\* aborted: the generator has not been called, build_ext.run has not been
\* started, no macro set has been produced, and the command stays aborted.
C8_ConfigureFailureAborts ==
  (argv = "build_ext" /\ \E i \in 1..Len(procs) : procs[i].returncode # 0) =>
    /\ pc = "aborted"
    /\ Len(procs) = 1
    /\ gen_calls = <<>>
    /\ build_ext_runs = 0
    /\ define = <<>>
    /\ pytsk3 = pytsk3_at_start

C8_Witness ==
  /\ pc = "aborted"
  /\ compiler_type # "msvc"
  /\ Len(procs) = 1
  /\ error = "CalledProcessError"

----------------------------------------------------------------------------
(* Properties of the release update.                                       *)

IsPrefix(a, b) == Len(a) <= Len(b) /\ a = SubSeq(b, 1, Len(a))

\* the elements of s that are in S, in their order
RECURSIVE Filter(_, _)
Filter(s, S) ==
  IF s = <<>> THEN <<>>
  ELSE (IF Head(s) \in S THEN <<Head(s)>> ELSE <<>>) \o Filter(Tail(s), S)

\* the steps the states of the orchestrator name, in the order stated
NamedSteps(ct) ==
  <<"git submodule init", "git submodule update", "git reset --hard",
    "git clean", "git checkout tag", "patch_sleuthkit">>
  \o (IF ct = "msvc" THEN <<>> ELSE <<"./bootstrap">>)
  \o <<"version.txt", "generate_bindings">>

\* every step of a release update, in order
AllSteps(ct) ==
  <<"git stash", "git submodule init", "git submodule update",
    "git reset --hard", "git clean", "git checkout master", "git pull",
    "git fetch --tags", "git checkout tag", "patch_sleuthkit">>
  \o (IF ct = "msvc" THEN <<>> ELSE <<"./bootstrap">>)
  \o <<"version.txt", "generate_bindings">>

\* C6 as stated: a release update that reaches Done has run submodule init
\* and update, reset --hard and clean, the checkout of the tag, Patch,
\* Bootstrap (unless skipped), the write of version.txt and the binding
\* generator in this order, each once, and submodule init was the first step
\* performed.
C6_Original ==
  (argv = "update" /\ pc = "done") =>
    /\ Filter(steps, Range(NamedSteps(compiler_type))) = NamedSteps(compiler_type)
    /\ steps[1] = "git submodule init"

\* C6 amended: the steps of a release update are, in this order and each
\* once, git stash in the vendor directory (the first step performed),
\* submodule init and update, reset --hard and clean, checkout master, pull
\* and fetch --tags, the checkout of the tag, Patch, Bootstrap (unless
\* skipped), the write of version.txt and the binding generator: at any
\* time the steps completed are the first ones of this list, and at Done all
\* of them.
C6_StepOrder ==
  argv = "update" =>
    /\ IsPrefix(steps, AllSteps(compiler_type))
    /\ pc = "done" => steps = AllSteps(compiler_type)

C6_Witness == argv = "update" /\ pc = "done" /\ compiler_type # "msvc"

\* the steps of a release update that start an external tool
ExternalSteps ==
  {"git stash", "git submodule init", "git submodule update",
   "git reset --hard", "git clean", "git checkout master", "git pull",
   "git fetch --tags", "git checkout tag", "./bootstrap"}

\* an external tool of the release update has returned non-zero
ToolFailed == argv = "update" /\ \E i \in 1..Len(procs) : procs[i].returncode # 0

\* C7: in a release update a non-zero exit of an external tool halts the
\* sequence.  The failed call is the last process started and was started
\* once; version.txt is not written and the generator not called; Patch has
\* not touched a file if the failure precedes it; the failing step undoes
\* nothing (files and completed steps stay as they were); and no step
\* follows.
C7_FailureHalts ==
  /\ [](ToolFailed =>
          /\ pc = "aborted"
          /\ \A i \in 1..Len(procs) : procs[i].returncode # 0 => i = Len(procs)
          /\ Len(procs) = Len(Filter(steps, ExternalSteps)) + 1
          /\ NoDuplicates(steps)
          /\ text[version_txt] = text_at_start[version_txt]
          /\ gen_calls = <<>>
          /\ pytsk3 = pytsk3_at_start
          /\ "patch_sleuthkit" \notin Range(steps) => text = text_at_start)
  /\ [][/\ ~ ToolFailed
        /\ ToolFailed' => /\ text' = text
                          /\ steps' = steps
                          /\ pytsk3' = pytsk3]_vars

C7_Witness ==
  /\ ToolFailed
  /\ pc = "aborted"
  /\ "patch_sleuthkit" \in Range(steps)
  /\ text # text_at_start

raw_c_rules == files(timezone)[Len(files(timezone))].rules

\* raw.c has been taken up by patch_sleuthkit: rewritten or failed
RawTakenUp ==
  argv = "update"
  /\ (file_index = Len(files(timezone)) \/ error = "IndexError")

\* the number of lines of raw.c once its rules have been applied
PatchedRawLineCount ==
  Len(split(ApplyRules(raw_c_rules, 1, text_at_start[raw_c])))

\* C9: when the patched text of raw.c has fewer than 381 lines the Patch
\* step fails with an error: raw.c is not rewritten (it is never past the
\* line swap, and after the error its content is what it was), and the
\* update has not gone on to Bootstrap, the write of version.txt or the
\* binding generator.
C9_ShortRawFails ==
  (RawTakenUp /\ PatchedRawLineCount < 381) =>
    /\ error = "IndexError"
    /\ pc = "aborted"
    /\ file_index < Len(files(timezone))
    /\ text[raw_c] = text_at_start[raw_c]
    /\ Range(steps) \cap {"patch_sleuthkit", "./bootstrap", "version.txt",
                          "generate_bindings"} = {}
    /\ text[version_txt] = text_at_start[version_txt]
    /\ gen_calls = <<>>

C9_Witness ==
  /\ RawTakenUp
  /\ PatchedRawLineCount = 380
  /\ Len(split(text_at_start[raw_c])) = 365
  /\ error = "IndexError"

\* no rule of the file matches the text the file had
NoRuleMatched(f) ==
  \A k \in 1..Len(f.rules) : ~ HasMatch(text_at_start[f.filename], f.rules[k].search)

\* the rules applied in order, a rule that matches nowhere being passed over
RECURSIVE ApplyMatching(_, _, _)
ApplyMatching(rules, k, s) ==
  IF k > Len(rules) THEN s
  ELSE ApplyMatching(rules, k + 1,
                     IF HasMatch(s, rules[k].search) THEN re_sub(rules[k], s) ELSE s)

\* the line at zero-based index 381 moved to index 372
Moved(lines) ==
  [i \in 1..Len(lines) |->
     IF i <= 372 THEN lines[i]
     ELSE IF i = 373 THEN lines[382]
     ELSE IF i <= 382 THEN lines[i - 1]
     ELSE lines[i]]

\* the files of the table to look at: the one patch_sleuthkit has just
\* written when its loop is back at its head, all of them when it has
\* returned
Written ==
  IF argv # "update" THEN {}
  ELSE IF pc = "./bootstrap" THEN 1..Len(files(timezone))
  ELSE IF pc = "patch_sleuthkit" /\ file_index >= 1 THEN {file_index}
  ELSE {}

\* C10 as stated: a file for which no rule matched has, when the Patch
\* step has written it and when the step is over, the content it had before.
C10_Original ==
  \A k \in Written :
    NoRuleMatched(files(timezone)[k]) =>
      text[files(timezone)[k].filename] = text_at_start[files(timezone)[k].filename]

\* C10 amended: a rule that matches nowhere leaves the buffer unchanged and
\* raises no error, and the remaining rules and files are still processed:
\* a file the Patch step has written holds its text with the matching rules
\* applied in order, so a file other than raw.c for which no rule matched
\* has the content it had before; raw.c holds that text with the line at
\* index 381 moved to index 372, also when no rule matched.
C10_SilentNoOp ==
  \A k \in Written :
    LET f == files(timezone)[k]
        expected == ApplyMatching(f.rules, 1, text_at_start[f.filename])
    IN  /\ f.filename # raw_c => text[f.filename] = expected
        /\ (f.filename # raw_c /\ NoRuleMatched(f)) =>
             text[f.filename] = text_at_start[f.filename]
        /\ f.filename = raw_c =>
             text[f.filename] = join_lines(Moved(split(expected)))

C10_Witness ==
  /\ "patch_sleuthkit" \in Range(steps)
  /\ text_at_start["sleuthkit/tsk/fs/fs_open.c"]
       = Variants("sleuthkit/tsk/fs/fs_open.c")[3]
  /\ text["sleuthkit/tsk/fs/fs_open.c"] = "int y;\nfor (i = 0; i < 3; i++)\n"

----------------------------------------------------------------------------
(* Properties of the Patch Engine's write and of the files a release       *)
(* update changes.                                                         *)

\* the text a file has when the Patch step starts: a vendor file is as the
\* pinned tag has it, another file as it was when the command started
PrePatch(filename) ==
  IF StartsWith(filename, "sleuthkit/") THEN upstream[filename]
  ELSE text_at_start[filename]

\* the text patch_sleuthkit writes to a file; for a raw.c that is too short
\* for the line swap, the text with the rules applied
PostPatch(f) ==
  LET d == ApplyRules(f.rules, 1, PrePatch(f.filename))
  IN  IF f.filename = raw_c /\ pop_raises(split(d)) THEN d
      ELSE Patched(f.filename, f.rules, PrePatch(f.filename))

\* positions of the release update within patch_sleuthkit
InPatch == argv = "update" /\ pc \in {"patch_sleuthkit", "open w", "write"}

\* C11: in every state of the Patch step each file of the rule table holds
\* either its complete text from before the step or its complete patched
\* text, never an empty or partly written one.
C11_AtomicWrite ==
  InPatch =>
    \A i \in 1..Len(files(timezone)) :
      LET f == files(timezone)[i]
      IN  \/ text[f.filename] = PrePatch(f.filename)
          \/ text[f.filename] = PostPatch(f)

\* the files named by the rule table
RuleTableFiles ==
  {files(timezone)[i].filename : i \in 1..Len(files(timezone))}

\* the files whose content differs from what it was when the command started
ChangedFiles == {f \in DOMAIN text : text[f] # text_at_start[f]}

UpdateDone == argv = "update" /\ pc = "done"

----------------------------------------------------------------------------
(* Properties of the steps of the release update after the Patch step.     *)

\* the processes started that ran the vendor bootstrap script
BootstrapProcs == {i \in 1..Len(procs) : procs[i].cmd[1] = "./bootstrap"}

\* positions of the release update after the Bootstrap step was passed
AfterBootstrap ==
  argv = "update" /\ pc \in {"version.txt", "generate_bindings", "done"}

\* the step index of a step that was completed once
StepIndex(name) == CHOOSE i \in 1..Len(steps) : steps[i] = name

\* C13: in a release update ./bootstrap is run, once, with no arguments and
\* in the vendor directory, exactly when the default compiler is not msvc;
\* it is never started before the Patch step has completed; when it is
\* skipped nothing is started between Patch and the write of version.txt,
\* which is the step that follows Patch.
C13_BootstrapUnlessMsvc ==
  /\ AfterBootstrap =>
       /\ (BootstrapProcs # {}) <=> (compiler_type # "msvc")
       /\ Cardinality(BootstrapProcs) <= 1
       /\ \A i \in BootstrapProcs :
            /\ procs[i].cmd = <<"./bootstrap">>
            /\ procs[i].cwd = "sleuthkit"
            /\ i = Len(procs)
       /\ ("./bootstrap" \in Range(steps)) <=> (compiler_type # "msvc")
       /\ (compiler_type = "msvc" /\ "version.txt" \in Range(steps)) =>
            StepIndex("version.txt") = StepIndex("patch_sleuthkit") + 1
  /\ (argv = "update" /\ BootstrapProcs # {}) =>
       /\ "patch_sleuthkit" \in Range(steps)
       /\ compiler_type # "msvc"

C13_Witness ==
  /\ AfterBootstrap
  /\ compiler_type = "msvc"
  /\ "version.txt" \in Range(steps)
  /\ BootstrapProcs = {}

----------------------------------------------------------------------------
(* Builds and release updates one after the other: every command is a new  *)
(* run of the script, which finds the files as the last one left them.     *)

\* the commands of a sequence
Commands == {"build_ext", "update"}

\* the files before the first command: the rule table files as the vendor
\* release and the project have them, raw.c long enough for the line swap
\* or one line too short
SequenceTexts ==
  {t \in UpdateTexts :
     /\ \A f \in OtherFiles : t[f] = Variants(f)[1]
     /\ t[raw_c] \in {RawText(FALSE, 381), RawText(TRUE, 383)}}

\* python setup.py <command> is started again after a command has ended:
\* a new process, with a new ProjectBuilder, and the files on disk as they
\* are
next_command ==
  /\ pc \in {"done", "aborted"}
  /\ \E command \in Commands : argv' = command
  /\ pc' = "build"
  /\ _source_files' = SeedSourceFiles
  /\ manifests' = <<>>
  /\ pytsk3_at_start' = pytsk3
  /\ procs' = <<>>
  /\ printed' = <<>>
  /\ define' = <<>>
  /\ gen_calls' = <<>>
  /\ build_ext_runs' = 0
  /\ text_at_start' = text
  /\ steps' = <<>>
  /\ data' = ""
  /\ file_index' = 0
  /\ output' = ""
  /\ error' = ""
  /\ UNCHANGED <<sdist_runs, libtsk_readable, timezone, tree, compiler_type,
                 pytsk3, text, upstream>>

InitSequence ==
  /\ libtsk_readable = TRUE
  /\ compiler_type \in CompilerTypes
  /\ pytsk3 \in Pytsk3States
  /\ \E command \in Commands, t \in SequenceTexts :
       Start(command, SmallTree, t)

NextSequence ==
  \/ build
  \/ setup
  \/ configure_source_tree_msvc
  \/ configure_source_tree_configured
  \/ configure_source_tree_failed
  \/ run_bindings_present
  \/ run_generate_bindings
  \/ build_ext_run
  \/ git_stash
  \/ git_submodule_init
  \/ git_submodule_update
  \/ git_reset_hard
  \/ git_clean
  \/ git_checkout_master
  \/ git_pull
  \/ git_fetch_tags
  \/ git_checkout_tag
  \/ patch_sleuthkit_rewrite
  \/ patch_sleuthkit_index_error
  \/ patch_sleuthkit_open_w
  \/ patch_sleuthkit_write
  \/ bootstrap
  \/ skip_bootstrap
  \/ write_version
  \/ update_generate_bindings
  \/ next_command

SpecSequence == InitSequence /\ [][NextSequence]_vars

\* the step taken invokes the binding generator
GeneratorInvoked == Len(gen_calls') = Len(gen_calls) + 1

\* the step taken changes pytsk3.c
ArtifactWritten == pytsk3' # pytsk3

\* C14 as stated: across builds and release updates the binding generator
\* is invoked only in a state where pytsk3.c does not exist, and an
\* existing pytsk3.c is never written.
C14_Original ==
  [][/\ GeneratorInvoked => ~ pytsk3.exists
     /\ ArtifactWritten => ~ pytsk3.exists]_vars

\* C14, amended: across builds and release updates, a build invokes the
\* binding generator only in a state where pytsk3.c is missing or is not
\* readable, and a build never writes a pytsk3.c that exists and is
\* readable; pytsk3.c is written by the generator only; the release
\* update's last step invokes the generator whatever the state of pytsk3.c.
C14_GenerationGuard ==
  [][/\ (GeneratorInvoked /\ argv = "build_ext") =>
          ~ (pytsk3.exists /\ pytsk3.readable)
     /\ (ArtifactWritten /\ argv = "build_ext") =>
          ~ (pytsk3.exists /\ pytsk3.readable)
     /\ ArtifactWritten => GeneratorInvoked
     /\ GeneratorInvoked => argv \in Commands
     /\ (argv = "update" /\ pc = "generate_bindings" /\ pc' # pc) =>
          /\ GeneratorInvoked
          /\ pytsk3' = Generated(pytsk3)]_vars

\* a release update has regenerated a pytsk3.c that an earlier build of the
\* sequence had generated
C14_Witness ==
  /\ argv = "update"
  /\ pc = "done"
  /\ pytsk3_at_start.exists
  /\ pytsk3_at_start.content = "generated"
  /\ Len(gen_calls) = 1

----------------------------------------------------------------------------
(* The sdist command: SDistCommand.run.                                    *)

configure_path == join("sleuthkit", "configure")

\* os.access(libtsk_path, os.R_OK): the directory sleuthkit/tsk is there
\* and its mode lets the user read it
access_libtsk_path ==
  /\ libtsk_readable
  /\ \E p \in tree : StartsWith(p, join(_libtsk_path, ""))

\* what git submodule update may put into the vendor directory: the sources,
\* with or without a configuration script
VendorCheckouts ==
  {{"sleuthkit/tsk/base/md5c.c"},
   {"sleuthkit/tsk/base/md5c.c", configure_path}}

\* sleuthkit/tsk is accessible: no submodule call is made
sdist_libtsk_accessible ==
  /\ pc = "sdist"
  /\ access_libtsk_path
  /\ pc' = "sdist configure"
  /\ UNCHANGED <<sdist_runs, libtsk_readable,
                 timezone, argv, tree, _source_files, manifests, compiler_type,
                 pytsk3, pytsk3_at_start, procs, printed, define, gen_calls,
                 build_ext_runs, text, text_at_start, upstream, steps, data,
                 file_index, output, error>>

\* sleuthkit/tsk is not accessible: check_call of git submodule init
sdist_submodule_init ==
  /\ pc = "sdist"
  /\ ~ access_libtsk_path
  /\ \E returncode \in {0, 1} :
       /\ procs' = Append(procs, Process(<<"git", "submodule", "init">>, ".",
                                         returncode))
       /\ IF returncode = 0
          THEN pc' = "sdist git submodule update" /\ error' = error
          ELSE pc' = "aborted" /\ error' = "CalledProcessError"
  /\ UNCHANGED <<sdist_runs, libtsk_readable,
                 timezone, argv, tree, _source_files, manifests, compiler_type,
                 pytsk3, pytsk3_at_start, printed, define, gen_calls,
                 build_ext_runs, text, text_at_start, upstream, steps, data,
                 file_index, output>>

\* check_call of git submodule update, which checks the vendor sources out
sdist_submodule_update ==
  /\ pc = "sdist git submodule update"
  /\ \E returncode \in {0, 1} :
       /\ procs' = Append(procs, Process(<<"git", "submodule", "update">>, ".",
                                         returncode))
       /\ IF returncode = 0
          THEN /\ \E checkout \in VendorCheckouts : tree' = tree \cup checkout
               /\ pc' = "sdist configure"
               /\ error' = error
          ELSE /\ tree' = tree
               /\ pc' = "aborted"
               /\ error' = "CalledProcessError"
  /\ UNCHANGED <<sdist_runs, libtsk_readable,
                 timezone, argv, _source_files, manifests, compiler_type,
                 pytsk3, pytsk3_at_start, printed, define, gen_calls,
                 build_ext_runs, text, text_at_start, upstream, steps, data,
                 file_index, output>>

\* a missing configuration script that is not noticed: sdist.run is started
sdist_configure_missing_ignored ==
  /\ pc = "sdist configure"
  /\ configure_path \notin tree
  /\ sdist_runs' = sdist_runs + 1
  /\ pc' = "done"
  /\ UNCHANGED <<libtsk_readable,
                 timezone, argv, tree, _source_files, manifests, compiler_type,
                 pytsk3, pytsk3_at_start, procs, printed, define, gen_calls,
                 build_ext_runs, text, text_at_start, upstream, steps, data,
                 file_index, output, error>>

\* sleuthkit/configure does not exist: RuntimeError, which ends the command
sdist_configure_missing ==
  /\ pc = "sdist configure"
  /\ configure_path \notin tree
  /\ error' = "RuntimeError: Missing: sleuthkit/configure run 'setup.py build' first."
  /\ pc' = "aborted"
  /\ UNCHANGED <<sdist_runs, libtsk_readable,
                 timezone, argv, tree, _source_files, manifests, compiler_type,
                 pytsk3, pytsk3_at_start, procs, printed, define, gen_calls,
                 build_ext_runs, text, text_at_start, upstream, steps, data,
                 file_index, output>>

\* sleuthkit/configure exists: sdist.run(self)
sdist_run ==
  /\ pc = "sdist configure"
  /\ configure_path \in tree
  /\ sdist_runs' = sdist_runs + 1
  /\ pc' = "done"
  /\ UNCHANGED <<libtsk_readable,
                 timezone, argv, tree, _source_files, manifests, compiler_type,
                 pytsk3, pytsk3_at_start, procs, printed, define, gen_calls,
                 build_ext_runs, text, text_at_start, upstream, steps, data,
                 file_index, output, error>>

\* the vendor checkouts the command may find: with or without sources, with
\* or without the configuration script
SdistTrees == {t \cup c : t \in Trees, c \in SUBSET {configure_path}}

\* python setup.py sdist
InitSdist ==
  /\ libtsk_readable \in BOOLEAN
  /\ compiler_type = "unix"
  /\ pytsk3 = Missing
  /\ \E fs \in SdistTrees : Start("sdist", fs, NoText)

NextSdist ==
  \/ build
  \/ setup
  \/ sdist_libtsk_accessible
  \/ sdist_submodule_init
  \/ sdist_submodule_update
  \/ sdist_configure_missing
  \/ sdist_run

SpecSdist == InitSdist /\ [][NextSdist]_vars

\* the processes started with the given command
ProcsOf(command) == {i \in 1..Len(procs) : procs[i].cmd = command}

FailedProcs == {i \in 1..Len(procs) : procs[i].returncode # 0}

SdistEnded == argv = "sdist" /\ pc \in {"done", "aborted"}

\* C15: in the sdist command, sdist.run is started only with
\* sleuthkit/configure there; with it missing, and no submodule call having
\* failed, the command ends with the RuntimeError that names the file and
\* sdist.run was not started; git submodule init and update are started
\* only when sleuthkit/tsk is not accessible, init first and update second,
\* at most once each, and after a failed call the command has ended with
\* no further process started.
C15_SdistGuards ==
  /\ [](argv = "sdist" =>
          /\ sdist_runs <= 1
          /\ sdist_runs > 0 => (configure_path \in tree /\ error = "")
          /\ (SdistEnded /\ configure_path \notin tree /\ FailedProcs = {}) =>
               /\ pc = "aborted"
               /\ StartsWith(error, "RuntimeError: Missing: sleuthkit/configure")
               /\ sdist_runs = 0
          /\ ProcsOf(<<"git", "submodule", "init">>) \subseteq {1}
          /\ ProcsOf(<<"git", "submodule", "update">>) \subseteq {2}
          /\ Len(procs) <= 2
          /\ \A i \in FailedProcs :
               /\ i = Len(procs)
               /\ pc = "aborted"
               /\ error = "CalledProcessError"
               /\ sdist_runs = 0)
  /\ [][(argv = "sdist" /\ procs = <<>> /\ procs' # procs) =>
          ~ access_libtsk_path]_vars

C15_Witness ==
  /\ argv = "sdist"
  /\ pc = "aborted"
  /\ StartsWith(error, "RuntimeError")
  /\ Len(procs) = 2
  /\ FailedProcs = {}
  /\ sdist_runs = 0

----------------------------------------------------------------------------
(* The order of the stages of a build.                                     *)

\* Source Discovery has run: the vendor directories were globbed and the
\* manifest was made
DiscoveryDone == Len(manifests) >= 1

\* the Toolchain Prober has started: a process was started or the macros
\* were returned
ProberStarted == procs # <<>> \/ define # <<>>

\* the Binding Trigger has completed
TriggerDone == argv = "build_ext" /\ pc \in {"build_ext.run", "done"}

\* neither the Orchestrator nor the Patch Engine has done anything
NoUpdateWork ==
  /\ steps = <<>>
  /\ file_index = 0
  /\ data = ""
  /\ text = text_at_start
  /\ \A i \in 1..Len(procs) : procs[i].cmd = configure_command

\* C16 as stated: in a build no Source Discovery work is done before the
\* Toolchain Prober and the Binding Trigger have completed, and neither the
\* Orchestrator nor the Patch Engine runs.
C16_Original ==
  argv = "build_ext" =>
    /\ DiscoveryDone => (define # <<>> /\ TriggerDone)
    /\ NoUpdateWork

\* C16, amended: a build starts with Source Discovery; the Toolchain Prober
\* starts only after the manifest was made, once; the Binding Trigger
\* completes only after the Prober has returned the macros; build_ext.run
\* starts only after the Binding Trigger has completed; neither the
\* Orchestrator nor the Patch Engine runs.
C16_BuildOrder ==
  argv = "build_ext" =>
    /\ pc = "build" => (~ DiscoveryDone /\ ~ ProberStarted /\ gen_calls = <<>>)
    /\ pc # "build" => Len(manifests) = 1
    /\ ProberStarted => DiscoveryDone
    /\ pc \in {"configure_source_tree", "binding_trigger", "build_ext.run",
               "done"} => DiscoveryDone
    /\ pc \in {"build", "setup", "configure_source_tree"} =>
         (define = <<>> /\ gen_calls = <<>> /\ pytsk3 = pytsk3_at_start)
    /\ (gen_calls # <<>> \/ TriggerDone) => (define # <<>> /\ DiscoveryDone)
    /\ pc \in {"build", "setup", "configure_source_tree", "binding_trigger",
               "build_ext.run", "aborted"} => build_ext_runs = 0
    /\ build_ext_runs > 0 => (TriggerDone /\ build_ext_runs = 1)
    /\ NoUpdateWork

C16_Witness ==
  /\ argv = "build_ext"
  /\ pc = "configure_source_tree"
  /\ DiscoveryDone
  /\ "sleuthkit/tsk/base/md5c.c" \in Range(manifests[1])
  /\ ~ ProberStarted

----------------------------------------------------------------------------
(* The Patch step run again: UpdateCommand.patch_sleuthkit called on the   *)
(* files a run of it has left.                                             *)

\* patch_sleuthkit is about to run over the files, which are as the vendor
\* release and the project have them or a variant of that
InitPatch ==
  /\ libtsk_readable = TRUE
  /\ compiler_type = "unix"
  /\ pytsk3 = Missing
  /\ argv = "patch_sleuthkit"
  /\ pc = "patch_sleuthkit"
  /\ tree = SmallTree
  /\ _source_files = SeedSourceFiles
  /\ manifests = <<>>
  /\ pytsk3_at_start = pytsk3
  /\ procs = <<>>
  /\ printed = <<>>
  /\ define = <<>>
  /\ gen_calls = <<>>
  /\ build_ext_runs = 0
  /\ text \in UpdateTexts
  /\ text_at_start = text
  /\ upstream = text
  /\ steps = <<>>
  /\ data = ""
  /\ file_index = 0
  /\ output = ""
  /\ error = ""
  /\ timezone \in Timezones
  /\ sdist_runs = 0

\* patch_sleuthkit has returned and is called again: its loop starts over,
\* on the files as they are now
patch_again ==
  /\ argv = "patch_sleuthkit"
  /\ pc = "./bootstrap"
  /\ Len(steps) < MaxPatchRuns
  /\ file_index' = 0
  /\ text_at_start' = text
  /\ pc' = "patch_sleuthkit"
  /\ UNCHANGED <<sdist_runs, libtsk_readable,
                 timezone, argv, tree, _source_files, manifests, compiler_type,
                 pytsk3, pytsk3_at_start, procs, printed, define, gen_calls,
                 build_ext_runs, text, upstream, steps, data, output, error>>

NextPatch ==
  \/ patch_sleuthkit_rewrite
  \/ patch_sleuthkit_index_error
  \/ patch_sleuthkit_open_w
  \/ patch_sleuthkit_write
  \/ patch_again

SpecPatch == InitPatch /\ [][NextPatch]_vars

\* the files the first run started from are the pristine ones
PristineSource ==
  /\ \A f \in OtherFiles : upstream[f] = Variants(f)[1]
  /\ StartsWith(upstream[raw_c], "#include \"raw.h\"")

\* a second run of patch_sleuthkit has returned; text_at_start is what the
\* first run had left
SecondPatchDone ==
  /\ argv = "patch_sleuthkit"
  /\ pc = "./bootstrap"
  /\ Len(steps) = 2

\* C17: a second run of the Patch step over the output of a first run on
\* pristine source leaves every file of the rule table as the first run
\* left it.
C17_Idempotent ==
  (SecondPatchDone /\ PristineSource) =>
    \A i \in 1..Len(files(timezone)) :
      text[files(timezone)[i].filename] =
        text_at_start[files(timezone)[i].filename]

----------------------------------------------------------------------------
(* The output of a configuration script that failed.                       *)

\* the lines of the captured output at or after the banner, as the print
\* loop shows them
BannerTail == PrintLoop(split(output), FALSE)

\* C18: when the configuration script has exited with non-zero in a build,
\* the lines of its captured output at or after the "configure:" banner
\* have been printed when the build is aborted.
C18_FailureOutputShown ==
  (argv = "build_ext" /\ pc = "aborted" /\ error = "CalledProcessError") =>
    /\ Len(printed) >= Len(BannerTail)
    /\ SubSeq(printed, Len(printed) - Len(BannerTail) + 1, Len(printed))
         = BannerTail

----------------------------------------------------------------------------
(* The line swap of raw.c.                                                 *)

\* patch_sleuthkit has computed the text of a file and is about to open the
\* file for writing: the file still has the text that was read
BufferReady == argv = "update" /\ pc = "open w"

\* the lines of the current file once its rules have been applied
RuledLines ==
  split(ApplyRules(files(timezone)[file_index].rules, 1,
                   text[files(timezone)[file_index].filename]))

\* how often each line occurs; the lines of two texts that are the same
\* but for their lines at the zero-based indices 372..381 occur as often in
\* the one as in the other when those ten lines do
LineCounts(lines) ==
  [x \in Range(lines) |-> Cardinality({i \in 1..Len(lines) : lines[i] = x})]

\* out is lines with the line at zero-based index 381 taken out and put in
\* again at zero-based index 372
MovedFrom381To372(lines, out) ==
  /\ Len(out) = Len(lines)
  /\ LineCounts(SubSeq(out, 373, 382)) = LineCounts(SubSeq(lines, 373, 382))
  /\ out[373] = lines[382]
  /\ \A i \in 373..381 : out[i + 1] = lines[i]
  /\ \A i \in 1..372 : out[i] = lines[i]
  /\ \A i \in 383..Len(lines) : out[i] = lines[i]

\* the text buffer of every file but raw.c is the text with the rules
\* applied, its lines in their order
OthersNotReordered ==
  (BufferReady /\ files(timezone)[file_index].filename # raw_c) =>
    split(data) = RuledLines

\* C19 as stated: whenever the patched text of raw.c has at least 381
\* lines the line swap succeeds, and its result is the input with the line
\* at index 381 moved to index 372; no other file has its lines reordered.
C19_Original ==
  /\ (argv = "update" /\ error = "IndexError") => PatchedRawLineCount < 381
  /\ (BufferReady /\ files(timezone)[file_index].filename = raw_c) =>
       MovedFrom381To372(RuledLines, split(data))
  /\ OthersNotReordered

\* C19, amended: whenever the patched text of raw.c has at least 382 lines
\* the line swap succeeds, and its result is the input with the line at
\* zero-based index 381 moved to index 372: the same number of lines, the
\* same lines as often, the old line 381 at 372, the old lines 372..380 at
\* 373..381 in their order, every other line where it was; no other file
\* has its lines reordered.
C19_LineSwap ==
  /\ (argv = "update" /\ error = "IndexError") => PatchedRawLineCount < 382
  /\ (BufferReady /\ files(timezone)[file_index].filename = raw_c) =>
       /\ Len(RuledLines) >= 382
       /\ MovedFrom381To372(RuledLines, split(data))
  /\ OthersNotReordered

C19_Witness ==
  /\ BufferReady
  /\ files(timezone)[file_index].filename = raw_c
  /\ Len(RuledLines) = 382
  /\ split(data)[373] = "382"
  /\ split(data)[382] = "381"

----------------------------------------------------------------------------
(* The time zone of the package version: the class body of UpdateCommand   *)
(* computes timezone_string from time.timezone when the script is loaded.  *)

\* time.timezone for every local offset of whole minutes
OffsetTimezones ==
  {60 * m : m \in (0 - MaxOffsetMinutes)..MaxOffsetMinutes}

\* the script is loaded in some time zone and run with a command that is
\* none of its own
InitVersion ==
  /\ libtsk_readable = TRUE
  /\ compiler_type = "unix"
  /\ pytsk3 = Missing
  /\ argv = "egg_info"
  /\ pc = "build"
  /\ tree = SmallTree
  /\ _source_files = SeedSourceFiles
  /\ manifests = <<>>
  /\ pytsk3_at_start = pytsk3
  /\ procs = <<>>
  /\ printed = <<>>
  /\ define = <<>>
  /\ gen_calls = <<>>
  /\ build_ext_runs = 0
  /\ text = NoText
  /\ text_at_start = NoText
  /\ upstream = NoText
  /\ steps = <<>>
  /\ data = ""
  /\ file_index = 0
  /\ output = ""
  /\ error = ""
  /\ timezone \in OffsetTimezones
  /\ sdist_runs = 0

NextVersion == build \/ setup

SpecVersion == InitVersion /\ [][NextVersion]_vars

\* the value of a decimal digit
DigitValue(c) == CHOOSE d \in 0..9 : ToString(d) = c

IsDigit(c) == \E d \in 0..9 : ToString(d) = c

\* C20: the time zone string of the package version is a sign and four
\* digits HHMM, MM at most 59, HH * 60 + MM the magnitude of the offset in
\* minutes, the sign '-' exactly when the offset is negative.
C20_TimezoneString ==
  LET s == timezone_string(timezone)
      offset == timezone \div 60
      magnitude == IF offset < 0 THEN 0 - offset ELSE offset
  IN  /\ Len(s) = 5
      /\ Char(s, 1) \in {"+", "-"}
      /\ \A i \in 2..5 : IsDigit(Char(s, i))
      /\ LET HH == 10 * DigitValue(Char(s, 2)) + DigitValue(Char(s, 3))
             MM == 10 * DigitValue(Char(s, 4)) + DigitValue(Char(s, 5))
         IN  /\ MM <= 59
             /\ HH * 60 + MM = magnitude
      /\ (Char(s, 1) = "-") <=> (offset < 0)
      /\ EndsWith(version_pkg(timezone), " " \o s)
====
